---- MODULE Spec2Model ----
(***************************************************************************)
(* ReverseGeocoder of map-picker.js: a cache, a table of pending requests, *)
(* a leading-edge flag, a queue of resolvers and two kinds of timers, in   *)
(* front of the Nominatim reverse-geocoding service.                       *)
(*                                                                         *)
(* The clock advances in steps of DEBOUNCE_DELAY and events of one instant  *)
(* happen in any order, timers of equal delay in the order they were set:  *)
(* a run with real times t maps to the instants t \div DEBOUNCE_DELAY, so   *)
(* every timing of the program is a behaviour of the model. A request may   *)
(* settle at any time; that it settles at all (#fetchAddress aborts it      *)
(* after 5000 ms) is the fairness of FairSpec.                             *)
(* Everything JavaScript runs without interruption (a call of              *)
(* getAddressFromCoordinates, a timer callback, the promise reactions of   *)
(* one settlement) is one action.                                          *)
(***************************************************************************)
EXTENDS Integers, Sequences, FiniteSets, TLC

\* ---- bounds of the model ----
NumKeys == 3          \* distinct coordinate pairs the callers ask for
MaxCalls == 3         \* calls of getAddressFromCoordinates in one behaviour

\* ---- program constants (milliseconds) ----
DEBOUNCE_DELAY == 1000

\* one step of the clock
TickLength == DEBOUNCE_DELAY

Keys == 1..NumKeys
null == 0                      \* JavaScript null
Addr(k) == k                   \* display_name the service holds for key k

VARIABLES
    cache,                  \* this.cache: Map cacheKey -> result
    pendingRequests,        \* this.pendingRequests: Map cacheKey -> promise (id of the call that owns it)
    hasExecutedImmediately, \* this.hasExecutedImmediately
    pendingResolvers,       \* this.pendingResolvers: resolve functions, by call id
    lastArgs,               \* this.lastArgs: key or null
    debounceTimer,          \* this.debounceTimer: id of the last timer set, or null
    timers,                 \* armed setTimeout callbacks of DEBOUNCE_DELAY, in arming order
    nextTimerId,            \* id the next setTimeout returns
    fetches,                \* #fetchAddress calls in flight: their indices in fetchLog
    fetchLog,               \* every #fetchAddress call started, with its outcome once settled
    calls,                  \* every getAddressFromCoordinates call and its promise
    startedThisInstant,     \* a #fetchAddress call started since the clock last advanced
    Leaflet,                \* the Leaflet module is imported and the map set up
    marker,                 \* MapPicker this.marker: key of its coordinates, or null
    address,                \* MapPicker this.address
    lastEvent,              \* the last MarkerDataEvent dispatched on the host
    markerCoordinates       \* the marker-coordinates attribute: key of its value, or null

\* state of the ReverseGeocoder, of the clock of TimedSpec, of the MapPicker
geocoderVars == <<cache, pendingRequests, hasExecutedImmediately, pendingResolvers, lastArgs,
                  debounceTimer, timers, nextTimerId, fetches, fetchLog, calls>>
pickerVars == <<Leaflet, marker, address, lastEvent, markerCoordinates>>
vars == <<cache, pendingRequests, hasExecutedImmediately, pendingResolvers, lastArgs,
          debounceTimer, timers, nextTimerId, fetches, fetchLog, calls,
          startedThisInstant, Leaflet, marker, address, lastEvent, markerCoordinates>>

\* ---- Map helpers ----
MapHas(m, k) == k \in DOMAIN m
MapSet(m, k, v) == [x \in DOMAIN m \cup {k} |-> IF x = k THEN v ELSE m[x]]
MapDelete(m, k) == [x \in DOMAIN m \ {k} |-> m[x]]
EmptyMap == [x \in {} |-> null]

\* ---- promises of the calls ----
NewCall(k, kind, state, value, src) ==
    [key |-> k, kind |-> kind, state |-> state, value |-> value, src |-> src, settles |-> 0]

\* resolve(v) / reject of the promises of the calls in ids; a promise settles at
\* most once, later resolve calls are counted but change nothing
SettleCalls(cs, ids, state, v) ==
    [i \in DOMAIN cs |->
        IF i \in ids
        THEN [cs[i] EXCEPT !.state = IF cs[i].state = "pending" THEN state ELSE @,
                           !.value = IF cs[i].state = "pending" THEN v ELSE @,
                           !.settles = @ + 1]
        ELSE cs[i]]

Range(s) == {s[i] : i \in DOMAIN s}

\* the calls that returned the promise of call c from pendingRequests and still wait
Attached(cs, c) == {i \in DOMAIN cs : cs[i].kind = "attached" /\ cs[i].src = c /\ cs[i].state = "pending"}

\* no MarkerDataEvent dispatched yet
NoEvent == [name |-> "none", key |-> null, address |-> null, call |-> 0]

Init ==
    /\ cache = EmptyMap
    /\ pendingRequests = EmptyMap
    /\ hasExecutedImmediately = FALSE
    /\ pendingResolvers = <<>>
    /\ lastArgs = null
    /\ debounceTimer = null
    /\ timers = <<>>
    /\ nextTimerId = 1
    /\ fetches = {}
    /\ fetchLog = <<>>
    /\ calls = <<>>
    /\ startedThisInstant = FALSE
    /\ Leaflet = FALSE
    /\ marker = null
    /\ address = null
    /\ lastEvent = NoEvent
    /\ markerCoordinates = null

\* setTimeout(callback, this.DEBOUNCE_DELAY)
SetTimeout(ts, kind, id) == Append(ts, [id |-> id, kind |-> kind, rem |-> DEBOUNCE_DELAY])
\* clearTimeout(id): no effect when the timer has fired or id is null
ClearTimeout(ts, id) == SelectSeq(ts, LAMBDA t : t.id # id)

\* this.#fetchAddress(lat, lng): the request leaves in the same step. The log keeps,
\* for every request, its key, who started it, how many calls had been made then
\* (at) and, once it settles, its outcome, the calls made by then (doneAt) and the
\* number of queued resolvers its settlement invoked (woke).
StartFetch(k, kind, owner) ==
    /\ fetchLog' = Append(fetchLog, [key |-> k, kind |-> kind, owner |-> owner, at |-> Len(calls),
                                     done |-> FALSE, ok |-> FALSE, value |-> null,
                                     doneAt |-> 0, woke |-> 0])
    /\ fetches' = fetches \cup {Len(fetchLog) + 1}

LogSettled(log, id, out, woke) ==
    [log EXCEPT ![id] = [@ EXCEPT !.done = TRUE, !.ok = out.ok, !.value = out.value,
                                  !.doneAt = Len(calls), !.woke = woke]]

\* variant of CacheHit: a hit also restarts the debounce timer
CacheHit_RestartsDebounce(k, me) ==
    /\ calls' = Append(calls, [NewCall(k, "hit", "resolved", cache[k], 0) EXCEPT !.settles = 1])
    /\ timers' = SetTimeout(ClearTimeout(timers, debounceTimer), "debounce", nextTimerId)
    /\ debounceTimer' = nextTimerId
    /\ nextTimerId' = nextTimerId + 1
    /\ UNCHANGED <<cache, pendingRequests, hasExecutedImmediately, pendingResolvers,
                   lastArgs, fetches, fetchLog>>


\* if (this.cache.has(cacheKey)) return this.cache.get(cacheKey);
CacheHit(k, me) ==
    /\ calls' = Append(calls, [NewCall(k, "hit", "resolved", cache[k], 0) EXCEPT !.settles = 1])
    /\ UNCHANGED <<cache, pendingRequests, hasExecutedImmediately, pendingResolvers,
                   lastArgs, debounceTimer, timers, nextTimerId, fetches, fetchLog>>

\* variant of AttachToPending: the call also records its key in lastArgs
AttachToPending_SetsLastArgs(k, me) ==
    /\ LET p == calls[pendingRequests[k]] IN
       calls' = Append(calls,
            IF p.state = "pending"
            THEN NewCall(k, "attached", "pending", null, pendingRequests[k])
            ELSE [NewCall(k, "attached", p.state, p.value, pendingRequests[k]) EXCEPT !.settles = 1])
    /\ lastArgs' = k
    /\ UNCHANGED <<cache, pendingRequests, hasExecutedImmediately, pendingResolvers,
                   debounceTimer, timers, nextTimerId, fetches, fetchLog>>


\* if (this.pendingRequests.has(cacheKey)) return this.pendingRequests.get(cacheKey);
\* the call's promise follows the stored one, at once when that one has settled
AttachToPending(k, me) ==
    /\ LET p == calls[pendingRequests[k]] IN
       calls' = Append(calls,
            IF p.state = "pending"
            THEN NewCall(k, "attached", "pending", null, pendingRequests[k])
            ELSE [NewCall(k, "attached", p.state, p.value, pendingRequests[k]) EXCEPT !.settles = 1])
    /\ UNCHANGED <<cache, pendingRequests, hasExecutedImmediately, pendingResolvers,
                   lastArgs, debounceTimer, timers, nextTimerId, fetches, fetchLog>>

\* mutant: the leading call is made whatever the flag says
LeadingAllowed_Always == TRUE

\* if (!this.hasExecutedImmediately)
LeadingAllowed == ~hasExecutedImmediately

\* mutant: the leading call forgets pendingRequests.set
ImmediateCall_NoPendingEntry(k, me) ==
    /\ hasExecutedImmediately' = TRUE
    /\ StartFetch(k, "immediate", me)
    /\ calls' = Append(calls, NewCall(k, "immediate", "pending", null, 0))
    /\ UNCHANGED <<cache, pendingRequests, pendingResolvers, lastArgs, debounceTimer, timers, nextTimerId>>

\* the leading call: flag, #fetchAddress, pendingRequests.set
ImmediateCall(k, me) ==
    /\ hasExecutedImmediately' = TRUE
    /\ StartFetch(k, "immediate", me)
    /\ pendingRequests' = MapSet(pendingRequests, k, me)
    /\ calls' = Append(calls, NewCall(k, "immediate", "pending", null, 0))
    /\ UNCHANGED <<cache, pendingResolvers, lastArgs, debounceTimer, timers, nextTimerId>>

\* mutant: lastArgs keeps the first queued key instead of the latest
QueueCall_FirstKeyWins(k, me) ==
    /\ lastArgs' = IF lastArgs = null THEN k ELSE lastArgs
    /\ pendingResolvers' = Append(pendingResolvers, me)
    /\ timers' = SetTimeout(ClearTimeout(timers, debounceTimer), "debounce", nextTimerId)
    /\ debounceTimer' = nextTimerId
    /\ nextTimerId' = nextTimerId + 1
    /\ calls' = Append(calls, NewCall(k, "queued", "pending", null, 0))
    /\ UNCHANGED <<cache, pendingRequests, hasExecutedImmediately, fetches, fetchLog>>

\* variant of QueueCall: the previous debounce timer is not cleared
QueueCall_NoClear(k, me) ==
    /\ lastArgs' = k
    /\ pendingResolvers' = Append(pendingResolvers, me)
    /\ timers' = SetTimeout(timers, "debounce", nextTimerId)
    /\ debounceTimer' = nextTimerId
    /\ nextTimerId' = nextTimerId + 1
    /\ calls' = Append(calls, NewCall(k, "queued", "pending", null, 0))
    /\ UNCHANGED <<cache, pendingRequests, hasExecutedImmediately, fetches, fetchLog>>


\* a call during the debounce window: lastArgs, a resolver in the queue, the
\* debounce timer cleared and set again
QueueCall(k, me) ==
    /\ lastArgs' = k
    /\ pendingResolvers' = Append(pendingResolvers, me)
    /\ timers' = SetTimeout(ClearTimeout(timers, debounceTimer), "debounce", nextTimerId)
    /\ debounceTimer' = nextTimerId
    /\ nextTimerId' = nextTimerId + 1
    /\ calls' = Append(calls, NewCall(k, "queued", "pending", null, 0))
    /\ UNCHANGED <<cache, pendingRequests, hasExecutedImmediately, fetches, fetchLog>>

\* getAddressFromCoordinates(lat, lng), k the pair (lat, lng)
getAddressFromCoordinates(k) ==
    /\ Len(calls) < MaxCalls
    /\ LET me == Len(calls) + 1 IN
       IF MapHas(cache, k) THEN CacheHit(k, me)
       ELSE IF MapHas(pendingRequests, k) THEN AttachToPending(k, me)
       ELSE IF LeadingAllowed THEN ImmediateCall(k, me)
       ELSE QueueCall(k, me)

\* variant of executeTrailing: the key of the first waiter in the queue is fetched
executeTrailing_FirstWaiter ==
    IF lastArgs = null
    THEN UNCHANGED <<fetches, fetchLog>>
    ELSE StartFetch(IF pendingResolvers = <<>> THEN lastArgs ELSE calls[Head(pendingResolvers)].key,
                    "trailing", 0)


\* variant of executeTrailing: nothing is fetched while the leading-edge flag is set
executeTrailing_SkipsWhenBusy ==
    IF lastArgs = null \/ hasExecutedImmediately
    THEN UNCHANGED <<fetches, fetchLog>>
    ELSE StartFetch(lastArgs, "trailing", 0)


\* #executeTrailing() up to its await
executeTrailing ==
    IF lastArgs = null
    THEN UNCHANGED <<fetches, fetchLog>>
    ELSE StartFetch(lastArgs, "trailing", 0)

\* mutant: the release callback does not look at the queue
ReleaseTriggersTrailing_IgnoresQueue == lastArgs # null

\* if (this.pendingResolvers.length > 0 && this.lastArgs)
ReleaseTriggersTrailing == Len(pendingResolvers) > 0 /\ lastArgs # null

\* the callback of the setTimeout in .finally of the immediate promise
ReleaseTimerFires ==
    /\ timers # <<>>
    /\ Head(timers).rem = 0
    /\ Head(timers).kind = "release"
    /\ timers' = Tail(timers)
    /\ hasExecutedImmediately' = FALSE
    /\ IF ReleaseTriggersTrailing
       THEN executeTrailing
       ELSE UNCHANGED <<fetches, fetchLog>>
    /\ UNCHANGED <<cache, pendingRequests, pendingResolvers, lastArgs, debounceTimer,
                   nextTimerId, calls>>

\* the callback of this.debounceTimer
DebounceTimerFires ==
    /\ timers # <<>>
    /\ Head(timers).rem = 0
    /\ Head(timers).kind = "debounce"
    /\ timers' = Tail(timers)
    /\ executeTrailing
    /\ UNCHANGED <<cache, pendingRequests, hasExecutedImmediately, pendingResolvers, lastArgs,
                   debounceTimer, nextTimerId, calls>>

\* outcomes of one #fetchAddress call for key k: display_name, null, or a throw
Outcomes(k) == {[ok |-> TRUE, value |-> Addr(k)], [ok |-> TRUE, value |-> null],
                [ok |-> FALSE, value |-> null]}

\* mutant: the .then handler empties the queue without invoking the resolvers
ImmediateThen_DropsQueue(k, own, result) ==
    /\ cache' = MapSet(cache, k, result)
    /\ pendingRequests' = MapDelete(pendingRequests, k)
    /\ calls' = SettleCalls(calls, own, "resolved", result)
    /\ pendingResolvers' = <<>>

\* variant of ImmediateThen: the .then handler does not write the cache
ImmediateThen_SkipsCache(k, own, result) ==
    /\ UNCHANGED cache
    /\ pendingRequests' = MapDelete(pendingRequests, k)
    /\ calls' = SettleCalls(SettleCalls(calls, Range(pendingResolvers), "resolved", result),
                            own, "resolved", result)
    /\ pendingResolvers' = <<>>


\* .then(result => ...) of the immediate promise; own: the call and those attached to it
ImmediateThen(k, own, result) ==
    /\ cache' = MapSet(cache, k, result)
    /\ pendingRequests' = MapDelete(pendingRequests, k)
    /\ calls' = SettleCalls(SettleCalls(calls, Range(pendingResolvers), "resolved", result),
                            own, "resolved", result)
    /\ pendingResolvers' = <<>>

\* variant of ImmediateRejected: the failure empties the queue of resolvers
ImmediateRejected_EmptiesQueue(k, own) ==
    /\ calls' = SettleCalls(calls, own, "rejected", null)
    /\ pendingResolvers' = <<>>
    /\ UNCHANGED <<cache, pendingRequests>>

\* variant of ImmediateRejected: the failure resolves the queued resolvers with null
ImmediateRejected_ResolvesWaiters(k, own) ==
    /\ calls' = SettleCalls(SettleCalls(calls, Range(pendingResolvers), "resolved", null),
                            own, "rejected", null)
    /\ pendingResolvers' = <<>>
    /\ UNCHANGED <<cache, pendingRequests>>


\* variant of ImmediateRejected: the failure is swallowed and the promise resolves with null
ImmediateRejected_ResolvesNull(k, own) ==
    /\ calls' = SettleCalls(calls, own, "resolved", null)
    /\ UNCHANGED <<cache, pendingRequests, pendingResolvers>>


\* the fetch threw: .then is skipped and the immediate promise rejects
ImmediateRejected(k, own) ==
    /\ calls' = SettleCalls(calls, own, "rejected", null)
    /\ UNCHANGED <<cache, pendingRequests, pendingResolvers>>

\* variant of ImmediateFinally: the release callback is scheduled without delay
ImmediateFinally_NoDelay ==
    /\ timers' = Append(timers, [id |-> nextTimerId, kind |-> "release", rem |-> 0])
    /\ nextTimerId' = nextTimerId + 1


\* variant of ImmediateFinally: no release timer is set
ImmediateFinally_NoTimer ==
    UNCHANGED <<timers, nextTimerId>>


\* .finally(() => setTimeout(..., this.DEBOUNCE_DELAY))
ImmediateFinally ==
    /\ timers' = SetTimeout(timers, "release", nextTimerId)
    /\ nextTimerId' = nextTimerId + 1

\* the immediate promise settles: .then handler (on success), then .finally
ImmediateSettles(f, out) ==
    /\ f \in fetches
    /\ fetchLog[f].kind = "immediate"
    /\ LET k == fetchLog[f].key
           me == fetchLog[f].owner
           own == {me} \cup Attached(calls, me)
       IN
       /\ fetches' = fetches \ {f}
       /\ fetchLog' = LogSettled(fetchLog, f, out, IF out.ok THEN Len(pendingResolvers) ELSE 0)
       /\ IF out.ok THEN ImmediateThen(k, own, out.value) ELSE ImmediateRejected(k, own)
       /\ ImmediateFinally
       /\ UNCHANGED <<hasExecutedImmediately, lastArgs, debounceTimer>>

\* variant of TrailingTryCatch: without the catch, the failure reaches the waiters
TrailingTryCatch_Propagates(k, out) ==
    IF out.ok THEN
        /\ cache' = MapSet(cache, k, out.value)
        /\ calls' = SettleCalls(calls, Range(pendingResolvers), "resolved", out.value)
    ELSE
        /\ calls' = SettleCalls(calls, Range(pendingResolvers), "rejected", null)
        /\ UNCHANGED cache


\* variant of TrailingTryCatch: the catch stores null for the key
TrailingTryCatch_CachesFailure(k, out) ==
    /\ cache' = MapSet(cache, k, out.value)
    /\ calls' = SettleCalls(calls, Range(pendingResolvers), "resolved", out.value)


\* try { result = await ...; cache.set; resolve all } catch { resolve all with null }
TrailingTryCatch(k, out) ==
    IF out.ok THEN
        /\ cache' = MapSet(cache, k, out.value)
        /\ calls' = SettleCalls(calls, Range(pendingResolvers), "resolved", out.value)
    ELSE
        /\ calls' = SettleCalls(calls, Range(pendingResolvers), "resolved", null)
        /\ UNCHANGED cache

\* variant of TrailingFinally: the finally empties the whole pending table
TrailingFinally_ClearsPending(k) ==
    /\ pendingResolvers' = <<>>
    /\ pendingRequests' = EmptyMap
    /\ lastArgs' = null


\* variant of TrailingFinally: lastArgs is not cleared
TrailingFinally_KeepsLastArgs(k) ==
    /\ pendingResolvers' = <<>>
    /\ pendingRequests' = MapDelete(pendingRequests, k)
    /\ UNCHANGED lastArgs


\* variant of TrailingFinally: the queue of resolvers is not emptied
TrailingFinally_KeepsQueue(k) ==
    /\ UNCHANGED pendingResolvers
    /\ pendingRequests' = MapDelete(pendingRequests, k)
    /\ lastArgs' = null


\* finally { pendingResolvers = []; pendingRequests.delete(cacheKey); lastArgs = null }
TrailingFinally(k) ==
    /\ pendingResolvers' = <<>>
    /\ pendingRequests' = MapDelete(pendingRequests, k)
    /\ lastArgs' = null

\* #executeTrailing() after its await
TrailingSettles(f, out) ==
    /\ f \in fetches
    /\ fetchLog[f].kind = "trailing"
    /\ LET k == fetchLog[f].key IN
       /\ fetches' = fetches \ {f}
       /\ fetchLog' = LogSettled(fetchLog, f, out, Len(pendingResolvers))
       /\ TrailingTryCatch(k, out)
       /\ TrailingFinally(k)
       /\ UNCHANGED <<hasExecutedImmediately, debounceTimer, timers, nextTimerId>>

\* the clock advances by DEBOUNCE_DELAY: no armed timer is due
Tick ==
    /\ timers # <<>>
    /\ \A i \in DOMAIN timers : timers[i].rem > 0
    /\ timers' = [i \in DOMAIN timers |-> [timers[i] EXCEPT !.rem = @ - TickLength]]
    /\ UNCHANGED <<cache, pendingRequests, hasExecutedImmediately, pendingResolvers, lastArgs,
                   debounceTimer, nextTimerId, fetches, fetchLog, calls>>

\* Keys are interchangeable: callers name them in order of first use (key k only
\* after keys 1..k-1), which leaves one representative of every renaming.
CallableKeys == {k \in Keys : \A j \in 1..(k - 1) : \E i \in DOMAIN calls : calls[i].key = j}

ImmediateSettlement ==
    \E f \in fetches : \E out \in Outcomes(fetchLog[f].key) : ImmediateSettles(f, out)

TrailingSettlement ==
    \E f \in fetches : \E out \in Outcomes(fetchLog[f].key) : TrailingSettles(f, out)

\* ---- the ReverseGeocoder alone, called by any importer of the module ----
Lookup == \E k \in CallableKeys : getAddressFromCoordinates(k)

Next ==
    \/ Lookup /\ UNCHANGED <<startedThisInstant, pickerVars>>
    \/ ReleaseTimerFires /\ UNCHANGED <<startedThisInstant, pickerVars>>
    \/ DebounceTimerFires /\ UNCHANGED <<startedThisInstant, pickerVars>>
    \/ ImmediateSettlement /\ UNCHANGED <<startedThisInstant, pickerVars>>
    \/ TrailingSettlement /\ UNCHANGED <<startedThisInstant, pickerVars>>
    \/ Tick /\ UNCHANGED <<startedThisInstant, pickerVars>>

Spec == Init /\ [][Next]_vars

\* ---- the ReverseGeocoder with the instants of its requests ----
\* a request started in this step or earlier in this instant
Stamp == startedThisInstant' = (startedThisInstant \/ Len(fetchLog') > Len(fetchLog))

\* the clock advances, with or without armed timers
TimedTick ==
    /\ Tick \/ (timers = <<>> /\ startedThisInstant /\ UNCHANGED geocoderVars)
    /\ startedThisInstant' = FALSE
    /\ UNCHANGED pickerVars

TimedNext ==
    \/ Lookup /\ Stamp /\ UNCHANGED pickerVars
    \/ ReleaseTimerFires /\ Stamp /\ UNCHANGED pickerVars
    \/ DebounceTimerFires /\ Stamp /\ UNCHANGED pickerVars
    \/ ImmediateSettlement /\ Stamp /\ UNCHANGED pickerVars
    \/ TrailingSettlement /\ Stamp /\ UNCHANGED pickerVars
    \/ TimedTick

TimedSpec == Init /\ [][TimedNext]_vars

\* ---- the MapPicker element, the caller of the ReverseGeocoder ----
\* connectedCallback: the import of Leaflet resolves and #init sets up map and listeners
LoadLeaflet ==
    /\ ~Leaflet
    /\ Leaflet' = TRUE
    /\ UNCHANGED <<geocoderVars, startedThisInstant, marker, address, lastEvent,
                   markerCoordinates>>

\* setMarker resumes after its await, once for each call whose promise resolves in
\* this step (they all resolve with one value): this.address = address || null.
\* A rejected promise throws out of setMarker and assigns nothing.
SetMarkerResumes ==
    LET done == {i \in DOMAIN calls' : /\ calls'[i].state = "resolved"
                                       /\ (i \in DOMAIN calls => calls[i].state = "pending")}
    IN  address' = IF done = {} THEN address ELSE calls'[CHOOSE i \in done : TRUE].value

\* setMarker(lat, lng) up to the end of the turn it is called in
setMarker(k) ==
    IF ~Leaflet
    THEN UNCHANGED <<geocoderVars, marker, address>>
    ELSE /\ marker' = k
         /\ getAddressFromCoordinates(k)
         /\ SetMarkerResumes

\* #dispatchEventWithMarkerData(evName) with marker m and this.address a, in the turn
\* of call c: nothing without a marker. Keys stand for coordinates that toFixed(6)
\* keeps apart.
dispatchEventWithMarkerData(evName, m, a, c) ==
    IF m = null THEN lastEvent ELSE [name |-> evName, key |-> m, address |-> a, call |-> c]

\* the click listener of the map: setMarker, not awaited, then the event
MapClick(k) ==
    /\ Leaflet
    /\ setMarker(k)
    /\ lastEvent' = dispatchEventWithMarkerData("map-picker-marker-set", marker', address, Len(calls'))
    /\ UNCHANGED <<startedThisInstant, Leaflet, markerCoordinates>>

\* attributeChangedCallback of marker-coordinates when the page sets the attribute to
\* k, #refreshMarker when it holds k already: setMarker alone
MarkerAttributeChanged(k) ==
    /\ markerCoordinates' = k
    /\ setMarker(k)
    /\ UNCHANGED <<startedThisInstant, Leaflet, lastEvent>>

resetMap ==
    /\ Leaflet
    /\ marker' = null
    /\ address' = null
    /\ markerCoordinates' = null
    /\ UNCHANGED <<geocoderVars, startedThisInstant, Leaflet, lastEvent>>

\* the click listener of the confirm elements: without a marker an alert and nothing
\* else; setAttribute runs attributeChangedCallback, and so setMarker, when the value
\* changes; then the event, in the same turn
handleConfirm ==
    /\ Leaflet
    /\ marker # null
    /\ markerCoordinates' = marker
    /\ IF markerCoordinates # marker
       THEN setMarker(marker)
       ELSE UNCHANGED <<geocoderVars, marker, address>>
    /\ lastEvent' = dispatchEventWithMarkerData("map-picker-confirm", marker', address, Len(calls'))
    /\ UNCHANGED <<startedThisInstant, Leaflet>>

PickerNext ==
    \/ LoadLeaflet
    \/ \E k \in CallableKeys : MapClick(k)
    \/ \E k \in CallableKeys : MarkerAttributeChanged(k)
    \/ resetMap
    \/ handleConfirm
    \/ ReleaseTimerFires /\ UNCHANGED <<startedThisInstant, pickerVars>>
    \/ DebounceTimerFires /\ UNCHANGED <<startedThisInstant, pickerVars>>
    \/ ImmediateSettlement /\ SetMarkerResumes /\ UNCHANGED <<startedThisInstant, Leaflet, marker, lastEvent, markerCoordinates>>
    \/ TrailingSettlement /\ SetMarkerResumes /\ UNCHANGED <<startedThisInstant, Leaflet, marker, lastEvent, markerCoordinates>>
    \/ Tick /\ UNCHANGED <<startedThisInstant, pickerVars>>

PickerSpec == Init /\ [][PickerNext]_vars

\* The event loop runs every due timer callback, every request settles (a response,
\* an error, or the abort after 5000 ms) and time passes.
FairSpec ==
    /\ Spec
    /\ WF_vars(Tick /\ UNCHANGED <<startedThisInstant, pickerVars>>)
    /\ WF_vars(ReleaseTimerFires /\ UNCHANGED <<startedThisInstant, pickerVars>>)
    /\ WF_vars(DebounceTimerFires /\ UNCHANGED <<startedThisInstant, pickerVars>>)
    /\ WF_vars(ImmediateSettlement /\ UNCHANGED <<startedThisInstant, pickerVars>>)
    /\ WF_vars(TrailingSettlement /\ UNCHANGED <<startedThisInstant, pickerVars>>)

(***************************************************************************)
(* Vocabulary of the properties                                            *)
(***************************************************************************)
\* a #fetchAddress call starts in this step, and which
NewFetch == Len(fetchLog') = Len(fetchLog) + 1
Started == fetchLog'[Len(fetchLog')]
\* getAddressFromCoordinates is called in this step, and its record
NewCallMade == Len(calls') = Len(calls) + 1
TheCall == calls'[Len(calls')]
\* the requests that settle in this step
SettledNow == {j \in DOMAIN fetchLog : ~fetchLog[j].done /\ fetchLog'[j].done}
\* the queued calls whose promise settles in this step
WokenNow == {i \in DOMAIN calls : calls[i].kind = "queued" /\ calls[i].state = "pending"
                                  /\ calls'[i].state # "pending"}
\* what the resolvers invoked by the settlement of request t receive
ResolvedWith(t) == IF t.ok THEN t.value ELSE null
\* the slot is busy: an immediate request is in flight, or the timer set at its
\* settlement has not fired yet
SlotBusy ==
    \/ \E f \in fetches : fetchLog[f].kind = "immediate"
    \/ \E i \in DOMAIN timers : timers[i].kind = "release"
\* the busy window call i falls in: the immediate requests started before it
Window(i) == Cardinality({j \in DOMAIN fetchLog : fetchLog[j].kind = "immediate" /\ fetchLog[j].at + 1 < i})
Settled(i) == i \in DOMAIN calls /\ calls[i].state # "pending"
Quiescent == fetches = {} /\ timers = <<>> /\ \A i \in DOMAIN calls : Settled(i)

(***************************************************************************)
(* C1..C10                                                                 *)
(***************************************************************************)

\* C1: every call of getAddressFromCoordinates settles exactly once: no promise has
\* its resolve/reject invoked twice, a promise is settled iff it was invoked once,
\* and under fairness the calls made so far are all settled again and again (a
\* settled promise stays settled, so every call made is eventually settled).
C1_SettlesExactlyOnce ==
    /\ [](\A i \in DOMAIN calls : /\ calls[i].settles <= 1
                                  /\ (calls[i].state = "pending" <=> calls[i].settles = 0))
    /\ []<>(\A i \in DOMAIN calls : Settled(i))

C1_Witness ==
    \E i, j, l \in DOMAIN calls :
        /\ calls[i].kind = "immediate" /\ Settled(i)
        /\ calls[j].kind = "attached" /\ Settled(j)
        /\ calls[l].kind = "queued" /\ Settled(l)

\* C2 (as claimed): no #fetchAddress call, immediate or trailing, starts for a key
\* that the cache holds at that moment.
C2_CachedKeyNeverDispatched ==
    [][NewFetch => ~MapHas(cache, Started.key)]_vars

\* C3 (as claimed): at most one #fetchAddress call is in flight in every state.
C3_AtMostOneDispatchInFlight == Cardinality(fetches) <= 1

\* C4 (as claimed): #executeTrailing starts a request only when the slot is free
\* (hasExecutedImmediately is false when the request leaves).
C4_DeferredOnlyWhenSlotFree ==
    [][(NewFetch /\ Started.kind = "trailing") => ~hasExecutedImmediately']_vars

\* C5 (as claimed): once some call for key k has resolved, no request for k starts
\* any more and every later call for k returns the value the cache holds for k.
C5_CacheIdempotence ==
    [][\A k \in Keys :
        (\E i \in DOMAIN calls : calls[i].key = k /\ calls[i].state = "resolved") =>
            /\ ~(NewFetch /\ Started.key = k)
            /\ (NewCallMade /\ TheCall.key = k) =>
                    (MapHas(cache, k) /\ TheCall.kind = "hit" /\ TheCall.value = cache[k])]_vars

\* C6 (as claimed): no two #fetchAddress calls for the same key are in flight at once.
C6_OneInFlightPerKey ==
    \A f, g \in fetches : f # g => fetchLog[f].key # fetchLog[g].key

\* C7 (as claimed): when queued calls of pairwise distinct keys, all of one busy
\* window, are settled, they all get one value and it is the value fetched for the
\* key of the last of them.
C7_WaitersGetLastKeysValue ==
    [][(/\ WokenNow # {}
        /\ \A i, j \in WokenNow : i # j => calls[i].key # calls[j].key
        /\ \A i, j \in WokenNow : Window(i) = Window(j)) =>
            \E t \in SettledNow :
                /\ fetchLog'[t].ok
                /\ fetchLog'[t].key = calls[pendingResolvers[Len(pendingResolvers)]].key
                /\ \A i \in WokenNow : calls'[i].state = "resolved" /\ calls'[i].value = fetchLog'[t].value]_vars

\* the key of the call queued last among the first n calls (null when none)
LastQueuedKey(n) ==
    LET Q == {i \in 1..n : calls[i].kind = "queued"} IN
    IF Q = {} THEN null ELSE calls[CHOOSE i \in Q : \A j \in Q : j <= i].key

\* C7 (amended): queued calls are settled only by the settlement of one request, all
\* of the queue together and with one value: the result of that request (null when
\* a trailing request failed). The request is the immediate one, which then
\* succeeded, or a trailing one for the key queued last before it started.
C7_WaitersGetSettlingDispatchValue ==
    [][WokenNow # {} =>
        /\ WokenNow = Range(pendingResolvers)
        /\ pendingResolvers' = <<>>
        /\ \E t \in SettledNow :
            /\ SettledNow = {t}
            /\ fetchLog'[t].woke = Len(pendingResolvers)
            /\ \A i \in WokenNow : /\ calls'[i].state = "resolved"
                                   /\ calls'[i].value = ResolvedWith(fetchLog'[t])
            /\ fetchLog[t].kind = "immediate" => fetchLog'[t].ok
            /\ fetchLog[t].kind = "trailing" => fetchLog[t].key = LastQueuedKey(fetchLog[t].at)]_vars

C7_Witness ==
    \E t \in DOMAIN fetchLog : \E i, j \in DOMAIN calls :
        /\ fetchLog[t].done /\ fetchLog[t].woke >= 2
        /\ calls[i].kind = "queued" /\ calls[j].kind = "queued"
        /\ calls[i].key # calls[j].key
        /\ Window(i) = Window(j)
        /\ calls[i].state = "resolved" /\ calls[j].state = "resolved"
        /\ calls[i].value = ResolvedWith(fetchLog[t]) /\ calls[j].value = ResolvedWith(fetchLog[t])

\* lookup(A) from Idle, then lookup(B), then lookup(C), distinct keys, B and C called
\* before A's request settles and before any timer starts a trailing request
BurstScenario ==
    /\ Len(calls) = 3
    /\ calls[1].key = 1 /\ calls[2].key = 2 /\ calls[3].key = 3
    /\ calls[1].kind = "immediate" /\ calls[2].kind = "queued" /\ calls[3].kind = "queued"
    /\ fetchLog[1].done /\ fetchLog[1].doneAt = 3
    /\ \A j \in 2..Len(fetchLog) : fetchLog[j].at = 3

C9_LeadingEdgeImmediacy ==
    [][\A k \in Keys :
        (/\ NewCallMade /\ TheCall.key = k
         /\ ~hasExecutedImmediately /\ ~MapHas(cache, k) /\ ~MapHas(pendingRequests, k)) =>
            /\ NewFetch
            /\ Started.key = k /\ Started.kind = "immediate" /\ Started.owner = Len(calls')
            /\ Len(fetchLog') \in fetches'
            /\ hasExecutedImmediately'
            /\ MapHas(pendingRequests', k) /\ pendingRequests'[k] = Len(calls')
            /\ TheCall.kind = "immediate" /\ TheCall.state = "pending"
            /\ timers' = timers]_vars

C9_Witness ==
    \E i \in DOMAIN calls : \E j \in DOMAIN fetchLog :
        /\ i >= 2 /\ calls[i].kind = "immediate"
        /\ fetchLog[j].owner = i /\ fetchLog[j].key = calls[i].key /\ fetchLog[j].at = i - 1
        /\ hasExecutedImmediately

\* C10: the flag hasExecutedImmediately is set exactly while the slot is busy (an
\* immediate request in flight, or its release timer not yet fired), and a call made
\* while the slot is busy starts no request; when its key is neither cached nor
\* pending it is queued.
C10_TrailingEdgeSuppression ==
    /\ [](hasExecutedImmediately <=> SlotBusy)
    /\ [][(NewCallMade /\ SlotBusy) =>
            /\ fetchLog' = fetchLog /\ fetches' = fetches
            /\ (~MapHas(cache, TheCall.key) /\ ~MapHas(pendingRequests, TheCall.key)) =>
                    /\ TheCall.kind = "queued" /\ TheCall.state = "pending"
                    /\ pendingResolvers' = Append(pendingResolvers, Len(calls'))]_vars

\* a call queued during the cooldown: the immediate request had settled already
C10_Witness ==
    \E i \in DOMAIN calls : \E j \in DOMAIN fetchLog :
        /\ calls[i].kind = "queued"
        /\ fetchLog[j].kind = "immediate" /\ fetchLog[j].done
        /\ fetchLog[j].at + 1 < i /\ fetchLog[j].doneAt < i
        /\ Window(i) = Window(fetchLog[j].at + 2)

C12_NeverRejects ==
    \A i \in DOMAIN calls : calls[i].state # "rejected"

\* C13: when the request of a deferred dispatch fails, every waiter then in the queue
\* is resolved with null and no call is rejected; the cache is unchanged and the
\* pending table holds no entry for the dispatched key afterwards.
C13_DeferredFailureSwallowed ==
    [][\A t \in SettledNow :
          (fetchLog[t].kind = "trailing" /\ ~fetchLog'[t].ok) =>
              /\ \A i \in Range(pendingResolvers) :
                    calls'[i].state = "resolved" /\ calls'[i].value = null
              /\ \A i \in DOMAIN calls : calls'[i].state = "rejected" => calls[i].state = "rejected"
              /\ pendingResolvers' = <<>>
              /\ cache' = cache
              /\ ~MapHas(pendingRequests', fetchLog[t].key)]_vars

C13_Witness ==
    \E t \in DOMAIN fetchLog :
        /\ fetchLog[t].kind = "trailing" /\ fetchLog[t].done /\ ~fetchLog[t].ok
        /\ fetchLog[t].woke >= 1
        /\ \E i \in DOMAIN calls :
              calls[i].kind = "queued" /\ calls[i].state = "resolved" /\ calls[i].value = null

\* C14: when the request of an immediate dispatch for a key settles, with success or
\* with failure, the pending table holds no entry for that key afterwards.
C14_PendingEntryRemovedOnSettlement ==
    [][\A t \in SettledNow :
          fetchLog[t].kind = "immediate" => ~MapHas(pendingRequests', fetchLog[t].key)]_vars

\* the pending table maps k to the promise of an immediate dispatch that failed
Stuck(k) == MapHas(pendingRequests, k) /\ calls[pendingRequests[k]].state = "rejected"

C16_OneDeferredDispatchPerBatch ==
    [][(NewFetch /\ Started.kind = "trailing") =>
          ~\E f \in fetches :
              /\ fetchLog[f].kind = "trailing"
              /\ \E i \in Range(pendingResolvers) : i <= fetchLog[f].at]_vars

\* C17: no two requests, immediate or deferred, start less than DEBOUNCE_DELAY apart:
\* no request starts in an instant in which another request has started.
C17_RateBound ==
    [][NewFetch => ~startedThisInstant]_vars

\* C18: the map-picker-marker-set event of a click carries the coordinates of the new
\* marker and the address looked up for the clicked coordinates: once that lookup has
\* resolved, the address of the event is the value it resolved with.
C18_MarkerSetEventCarriesNewAddress ==
    (lastEvent.name = "map-picker-marker-set" /\ calls[lastEvent.call].state = "resolved")
        => /\ lastEvent.key = calls[lastEvent.call].key
           /\ lastEvent.address = calls[lastEvent.call].value

\* C19: the settlement of a failed immediate dispatch leaves the queue of waiters, the
\* latest queued key and the cache as they were, and resolves no waiter.
C19_ImmediateFailureLeavesQueue ==
    [][\A t \in SettledNow :
          (fetchLog[t].kind = "immediate" /\ ~fetchLog'[t].ok) =>
              /\ pendingResolvers' = pendingResolvers
              /\ lastArgs' = lastArgs
              /\ cache' = cache
              /\ WokenNow = {}]_vars

\* an immediate dispatch has failed while a waiter was queued, and the waiter still waits
C19_Witness ==
    \E t \in DOMAIN fetchLog : \E i \in Range(pendingResolvers) :
        /\ fetchLog[t].kind = "immediate" /\ fetchLog[t].done /\ ~fetchLog[t].ok
        /\ fetchLog[t].at < i /\ i <= fetchLog[t].doneAt
        /\ calls[i].state = "pending"
        /\ lastArgs = calls[i].key

\* the immediate request in whose busy window the queued call i was made
WindowFetch(i) ==
    CHOOSE j \in DOMAIN fetchLog :
        /\ fetchLog[j].kind = "immediate" /\ fetchLog[j].at + 1 < i
        /\ \A h \in DOMAIN fetchLog :
              (fetchLog[h].kind = "immediate" /\ fetchLog[h].at + 1 < i) => h <= j

C21_ImmediateSuccessEffects ==
    [][\A t \in SettledNow :
          (fetchLog[t].kind = "immediate" /\ fetchLog'[t].ok) =>
              /\ MapHas(cache', fetchLog[t].key)
              /\ cache'[fetchLog[t].key] = fetchLog'[t].value
              /\ ~MapHas(pendingRequests', fetchLog[t].key)
              /\ \A i \in Range(pendingResolvers) :
                    calls'[i].state = "resolved" /\ calls'[i].value = fetchLog'[t].value
              /\ pendingResolvers' = <<>>]_vars

\* an immediate dispatch succeeded and resolved a waiter that asked for another key
C21_Witness ==
    \E t \in DOMAIN fetchLog : \E i \in DOMAIN calls :
        /\ fetchLog[t].kind = "immediate" /\ fetchLog[t].done /\ fetchLog[t].ok
        /\ fetchLog[t].woke >= 1 /\ fetchLog[t].value = Addr(fetchLog[t].key)
        /\ calls[i].kind = "queued" /\ calls[i].key # fetchLog[t].key
        /\ fetchLog[t].at < i /\ i <= fetchLog[t].doneAt
        /\ calls[i].state = "resolved" /\ calls[i].value = fetchLog[t].value
        /\ MapHas(cache, fetchLog[t].key) /\ pendingResolvers = <<>>

\* C22: a timer starts a deferred request only if the queue of waiters is non-empty at
\* that moment.
C22_DeferredOnlyWithWaiters ==
    [][(NewFetch /\ Started.kind = "trailing") => pendingResolvers # <<>>]_vars

\* the armed release timers, the immediate requests in flight
ReleaseTimers == {i \in DOMAIN timers : timers[i].kind = "release"}
ImmediateInFlight == {f \in fetches : fetchLog[f].kind = "immediate"}

\* C23: every immediate dispatch, succeeding or failing, arms the release timer when it
\* settles, for DEBOUNCE_DELAY from then, and not when it starts; from its start until
\* that timer fires the flag stays set and no other immediate dispatch starts; at most
\* one release timer is armed at any time.
C23_OneImmediatePerQuietPeriod ==
    /\ [](Cardinality(ReleaseTimers) + Cardinality(ImmediateInFlight) <= 1)
    /\ []((ReleaseTimers # {} \/ ImmediateInFlight # {}) => hasExecutedImmediately)
    /\ [][/\ \A t \in SettledNow :
                fetchLog[t].kind = "immediate" =>
                    timers' = Append(timers, [id |-> nextTimerId, kind |-> "release",
                                              rem |-> DEBOUNCE_DELAY])
          /\ (NewFetch /\ Started.kind = "immediate") =>
                /\ ReleaseTimers = {} /\ ImmediateInFlight = {}
                /\ timers' = timers
          /\ \A i \in ReleaseTimers :
                timers[i].rem > 0 => \E j \in DOMAIN timers' : timers'[j].id = timers[i].id
          /\ hasExecutedImmediately /\ ~hasExecutedImmediately'
                => \E i \in ReleaseTimers : timers[i].rem = 0
                                            /\ \A j \in DOMAIN timers' : timers'[j].id # timers[i].id
       ]_vars

\* a second immediate dispatch, after the first one failed and its release timer fired
C23_Witness ==
    \E s, t \in DOMAIN fetchLog :
        /\ s < t
        /\ fetchLog[s].kind = "immediate" /\ fetchLog[s].done /\ ~fetchLog[s].ok
        /\ fetchLog[t].kind = "immediate" /\ fetchLog[t].done
        /\ ReleaseTimers # {}

\* the callback of the release timer runs in this step
ReleaseFiresNow ==
    /\ timers # <<>>
    /\ Head(timers).kind = "release" /\ Head(timers).rem = 0
    /\ timers' = Tail(timers)

\* C24: when the release timer fires with no waiter queued the slot becomes idle and no
\* request starts; when it fires with waiters queued, a deferred request for the latest
\* queued key starts at once and the slot does not become idle.
C24_ReleaseKeepsSlotBusyWhenDeferring ==
    [][ReleaseFiresNow =>
          IF pendingResolvers # <<>>
          THEN /\ NewFetch /\ Started.kind = "trailing" /\ Started.key = lastArgs
               /\ hasExecutedImmediately'
          ELSE ~NewFetch /\ ~hasExecutedImmediately']_vars

DebounceTimers == {i \in DOMAIN timers : timers[i].kind = "debounce"}

\* C26: every queued lookup cancels the debounce timer armed before and arms a new one
\* for DEBOUNCE_DELAY: at most one debounce timer is armed at any time, and it is the
\* one of the most recent queued call, so no timer of an earlier queued call fires.
C26_TrailingDebounce ==
    /\ [](/\ Cardinality(DebounceTimers) <= 1
          /\ \A i \in DebounceTimers : timers[i].id = debounceTimer)
    /\ [][(NewCallMade /\ TheCall.kind = "queued") =>
             /\ \A i \in DebounceTimers : \A j \in DOMAIN timers' : timers'[j].id # timers[i].id
             /\ debounceTimer' = nextTimerId
             /\ \E j \in DOMAIN timers' :
                   timers'[j] = [id |-> nextTimerId, kind |-> "debounce", rem |-> DEBOUNCE_DELAY]
       ]_vars
    /\ [][\A i \in DebounceTimers :
             (timers[i].rem > 0 /\ \A j \in DOMAIN timers' : timers'[j].id # timers[i].id)
                 => (NewCallMade /\ TheCall.kind = "queued")]_vars

\* two lookups queued in a row: the timer of the first is gone, the timer of the second armed
C26_Witness ==
    /\ Len(pendingResolvers) = 2
    /\ nextTimerId = 3
    /\ \A t \in DOMAIN fetchLog : fetchLog[t].kind = "immediate"
    /\ Cardinality(DebounceTimers) = 1
    /\ \E i \in DebounceTimers : timers[i].id = 2

\* C27: when a deferred request settles, with success or failure, every waiter then in
\* the queue is resolved exactly once, with the outcome of that request (its value, or
\* null on failure); afterwards the queue is empty and the latest queued key is cleared.
C27_DeferredDrainsQueueOnce ==
    [][\A t \in SettledNow :
          fetchLog[t].kind = "trailing" =>
              /\ \A i \in Range(pendingResolvers) :
                    /\ calls[i].state = "pending" /\ calls[i].settles = 0
                    /\ calls'[i].state = "resolved" /\ calls'[i].settles = 1
                    /\ calls'[i].value = ResolvedWith(fetchLog'[t])
              /\ fetchLog'[t].woke = Len(pendingResolvers)
              /\ pendingResolvers' = <<>>
              /\ lastArgs' = null]_vars

\* a deferred request succeeded and resolved two waiters with its value
C27_Witness ==
    \E t \in DOMAIN fetchLog : \E i, j \in DOMAIN calls :
        /\ fetchLog[t].kind = "trailing" /\ fetchLog[t].done /\ fetchLog[t].ok
        /\ fetchLog[t].value = Addr(fetchLog[t].key) /\ fetchLog[t].woke = 2
        /\ i # j /\ calls[i].kind = "queued" /\ calls[j].kind = "queued"
        /\ calls[i].settles = 1 /\ calls[j].settles = 1
        /\ calls[i].value = fetchLog[t].value /\ calls[j].value = fetchLog[t].value
        /\ pendingResolvers = <<>> /\ lastArgs = null

\* C28: the cache changes only when a request settles with success, and then by the one
\* entry of the requested key with the fetched value: a failed request, a queued or
\* attached lookup and a timer add nothing, and the key of a waiter resolved with the
\* value of another key is not cached.
C28_CacheWrittenOnlyOnSuccess ==
    [][cache' # cache =>
          \E t \in SettledNow :
              /\ fetchLog'[t].ok
              /\ cache' = MapSet(cache, fetchLog[t].key, fetchLog'[t].value)]_vars

\* a waiter was resolved with the address of another key, and its own key is not cached
C28_Witness ==
    \E i \in DOMAIN calls : \E t \in DOMAIN fetchLog :
        /\ calls[i].kind = "queued" /\ calls[i].state = "resolved"
        /\ fetchLog[t].done /\ fetchLog[t].ok /\ fetchLog[t].woke >= 1
        /\ fetchLog[t].key # calls[i].key
        /\ calls[i].value = Addr(fetchLog[t].key)
        /\ DOMAIN cache = {fetchLog[t].key}
        /\ cache[fetchLog[t].key] = Addr(fetchLog[t].key)

\* C29: a cache entry is never updated or evicted: once the cache maps k to v it maps k
\* to v in every later state.
C29_CacheEntriesStable ==
    [][\A k \in DOMAIN cache : MapHas(cache', k) /\ cache'[k] = cache[k]]_vars

\* C30: a lookup of a cached key returns the cached value and changes nothing else,
\* whatever the state of the slot: the cache, the pending table, the flag, the queue,
\* the latest queued key, the timers and the requests stay as they are. A lookup made
\* after a value was written for its key always hits.
C30_CacheHitFrame ==
    [][(NewCallMade /\ MapHas(cache, TheCall.key)) =>
          /\ TheCall.kind = "hit"
          /\ TheCall.state = "resolved" /\ TheCall.value = cache[TheCall.key]
          /\ UNCHANGED <<cache, pendingRequests, hasExecutedImmediately, pendingResolvers,
                         lastArgs, debounceTimer, timers, nextTimerId, fetches, fetchLog>>]_vars

\* a hit while the slot is busy, a request is in flight and a timer is armed
C30_Witness ==
    \E i \in DOMAIN calls :
        /\ calls[i].kind = "hit" /\ calls[i].value = Addr(calls[i].key)
        /\ i = Len(calls)
        /\ hasExecutedImmediately /\ fetches # {} /\ timers # <<>>

\* C31: a lookup of a key that is not cached and has an entry in the pending table
\* settles with the outcome of the dispatch that made the entry, the same value or the
\* same failure; the call starts no request, queues no waiter and changes neither the
\* latest queued key nor a timer.
C31_AttachFollowsPendingEntry ==
    /\ [](\A i \in DOMAIN calls :
             calls[i].kind = "attached" =>
                 /\ calls[calls[i].src].kind = "immediate"
                 /\ calls[calls[i].src].key = calls[i].key
                 /\ calls[i].state = calls[calls[i].src].state
                 /\ calls[i].value = calls[calls[i].src].value)
    /\ [][(NewCallMade /\ ~MapHas(cache, TheCall.key) /\ MapHas(pendingRequests, TheCall.key)) =>
             /\ TheCall.kind = "attached" /\ TheCall.src = pendingRequests[TheCall.key]
             /\ UNCHANGED <<cache, pendingRequests, hasExecutedImmediately, pendingResolvers,
                            lastArgs, debounceTimer, timers, nextTimerId, fetches, fetchLog>>]_vars

\* a call attached while the request was in flight, resolved with its address
C31_Witness ==
    \E i \in DOMAIN calls : \E t \in DOMAIN fetchLog :
        /\ calls[i].kind = "attached" /\ calls[i].state = "resolved"
        /\ fetchLog[t].owner = calls[i].src /\ fetchLog[t].kind = "immediate"
        /\ fetchLog[t].done /\ fetchLog[t].ok /\ i <= fetchLog[t].doneAt
        /\ calls[i].value = Addr(calls[i].key)
        /\ calls[i].settles = 1

\* C32: a request for k that succeeds with the absent value enters k in the cache with
\* null, and every later lookup of k is a cache hit that returns null and starts no
\* request; a request that fails enters nothing in the cache.
C32_AbsentValueIsCachedSuccess ==
    [][/\ \A t \in SettledNow :
             IF fetchLog'[t].ok
             THEN fetchLog'[t].value = null =>
                      MapHas(cache', fetchLog[t].key) /\ cache'[fetchLog[t].key] = null
             ELSE cache' = cache
       /\ (NewCallMade /\ \E t \in DOMAIN fetchLog :
                             /\ fetchLog[t].key = TheCall.key
                             /\ fetchLog[t].done /\ fetchLog[t].ok /\ fetchLog[t].value = null)
             => TheCall.kind = "hit" /\ TheCall.value = null /\ ~NewFetch]_vars

\* C33: whenever the queue of waiters is non-empty the latest queued key is set, so a
\* timer that fires with waiters queued starts a request.
C33_QueueImpliesLastArgs ==
    /\ [](pendingResolvers # <<>> => lastArgs # null)
    /\ [][(pendingResolvers # <<>> /\ timers # <<>> /\ Head(timers).rem = 0
           /\ timers' = Tail(timers))
             => NewFetch /\ Started.kind = "trailing"]_vars

\* a timer fired with two waiters queued and the request for the latest key is in flight
C33_Witness ==
    /\ Len(pendingResolvers) = 2
    /\ lastArgs = calls[pendingResolvers[2]].key
    /\ \E f \in fetches : /\ fetchLog[f].kind = "trailing" /\ fetchLog[f].key = lastArgs
                          /\ fetchLog[f].at >= pendingResolvers[2]

\* C34: no waiter is stranded: whenever the queue of waiters is non-empty, a debounce
\* timer is armed or a deferred request is in flight.
C34_NoWaiterStranded ==
    pendingResolvers # <<>> =>
        \/ \E i \in DOMAIN timers : timers[i].kind = "debounce"
        \/ \E f \in fetches : fetchLog[f].kind = "trailing"

\* waiters that only the deferred requests in flight will resolve
C34_Witness ==
    /\ pendingResolvers # <<>>
    /\ timers = <<>>
    /\ ~hasExecutedImmediately
    /\ fetches # {}
    /\ \A f \in fetches : fetchLog[f].kind = "trailing"

\* C35: while the request of an immediate dispatch for k is in flight, the pending table
\* holds the entry that dispatch made for k; nothing removes it before the request
\* settles.
C35_PendingEntryWhileInFlight ==
    \A f \in fetches :
        fetchLog[f].kind = "immediate" =>
            /\ MapHas(pendingRequests, fetchLog[f].key)
            /\ pendingRequests[fetchLog[f].key] = fetchLog[f].owner

\* C36: the slot always frees again: when requests settle and timer callbacks run, a set
\* leading-edge flag is eventually cleared, after a success and after a failure of the
\* immediate dispatch alike.
C36_SlotEventuallyFree ==
    hasExecutedImmediately ~> ~hasExecutedImmediately

\* the flag is clear again after a failed and after a successful immediate dispatch
C36_Witness ==
    /\ ~hasExecutedImmediately
    /\ \E s, t \in DOMAIN fetchLog :
          /\ fetchLog[s].kind = "immediate" /\ fetchLog[s].done /\ ~fetchLog[s].ok
          /\ fetchLog[t].kind = "immediate" /\ fetchLog[t].done /\ fetchLog[t].ok

\* C37: the address held by the component belongs to the current marker: once every
\* lookup made by setMarker has settled and nothing is in flight or armed, this.address
\* is what the service holds for the coordinates of the marker on the map (its address,
\* or nothing).
C37_AddressBelongsToMarker ==
    (Quiescent /\ marker # null) => address \in {Addr(marker), null}

\* C38: after resetMap the marker and the address are null and stay null until the next
\* setMarker call, also when a lookup of an earlier setMarker settles after the reset.
C38_ResetClearsForGood ==
    [][(marker = null /\ address = null /\ ~NewCallMade)
          => (marker' = null /\ address' = null)]_vars

====
